---- MODULE Spec2Model ----
(***************************************************************************)
(* BreadAssassin: the message cache of the snipe cog.                      *)
(*                                                                         *)
(* The cog runs on one asyncio event loop: a coroutine runs without        *)
(* interruption until it awaits something that really suspends.  Every     *)
(* action below is one such uninterrupted run of the code, from one        *)
(* suspension point (or the start of a handler) to the next.               *)
(***************************************************************************)
EXTENDS Integers, Sequences, FiniteSets

\* ------------------------------------------------------------------ bounds
MaxTime == 3          \* the clock runs over 0..MaxTime
MaxEvents == 3        \* MessageState objects created in one run
MaxIndex == 3         \* the snipe command's index is drawn from -1..MaxIndex

MaxAge == 1           \* the max_age setting, in clock steps
MaxLenience == 1      \* the lenience argument is drawn from 0..MaxLenience

Ids == {1, 2, 3}      \* message ids that events are delivered for
Channels == {1, 2}

IndexValues == (0 - 1)..MaxIndex

\* ------------------------------------------------- the messages (discord.Message)
\* message.channel: message 3 is in channel 2, the others in channel 1.
MessageChannel(id) == IF id = 3 THEN 2 ELSE 1
\* message.author == self.bot.user: message 3 was sent by the bot itself.
AuthorIsBot(id) == id = 3
\* message.webhook_id is not None: message 2 was sent through a webhook.
HasWebhookId(id) == id = 2

VARIABLES
    now,            \* datetime.now()
    settings,       \* self.settings: the values of the cog's settings, and
                    \* in set_error what the latest change of one raised
    message_cache,  \* self.message_cache, an insertion-ordered dict, as the
                    \* sequence of its items [id, states]
    event_count,    \* number of MessageState objects created so far
    fetching,       \* event handlers suspended in fetch_webhook
    snipers,        \* the snipe invocations: position and locals of each
    pruner          \* the prune_message_cache loop: "running" or "stopped"

vars == <<now, settings, message_cache, event_count, fetching, snipers, pruner>>

\* ------------------------------------------------------------- list helpers
Last(s) == s[Len(s)]

Max(a, b) == IF a >= b THEN a ELSE b
Min(a, b) == IF a <= b THEN a ELSE b

\* dict.keys()
Keys(cache) == {cache[i].id : i \in 1..Len(cache)}

\* position of key id in the dict (0 when absent)
Position(cache, id) ==
    IF id \in Keys(cache)
    THEN CHOOSE i \in 1..Len(cache) : cache[i].id = id
    ELSE 0

\* dict[id] for a present key
Get(cache, id) == cache[Position(cache, id)].states

\* the dict without key id; the order of the other keys is kept
Without(cache, id) ==
    LET p == Position(cache, id)
    IN  [i \in 1..(Len(cache) - 1) |-> IF i < p THEN cache[i] ELSE cache[i + 1]]


\* ------------------------------------------------------------ ExpiryPolicy
\* variant: the comparison with the clock is turned around
is_state_expired_reversed(state, lenience, max_age, t) ==
    state.changed_at + max_age + lenience > t

\* variant: the comparison with the clock is not strict
is_state_expired_inclusive(state, lenience, max_age, t) ==
    state.changed_at + max_age + lenience <= t

\* is_state_expired(state, lenience=lenience), read at clock value t
is_state_expired(state, lenience, max_age, t) ==
    state.changed_at + max_age + lenience < t

\* ------------------------------------------------------------------ store
\* defaultdict.__getitem__: a missing key is inserted with list() as value
GetOrCreate(cache, id) ==
    IF id \in Keys(cache) THEN cache ELSE Append(cache, [id |-> id, states |-> <<>>])

\* variant: the key has been created but the state is not stored
AppendStateLost(cache, id, state) == cache

\* variant: the state is put in front of the list
AppendStateFront(cache, id, state) ==
    [cache EXCEPT ![Position(cache, id)].states = <<state>> \o @]

\* list.append on the list stored under a present key
AppendState(cache, id, state) ==
    [cache EXCEPT ![Position(cache, id)].states = Append(@, state)]

\* self.message_cache[message.id].append(MessageState(...))
Record(cache, id, state) == AppendState(GetOrCreate(cache, id), id, state)

\* dict.pop(id) with no default: KeyError when the key is absent
Pop(cache, id) ==
    IF id \in Keys(cache)
    THEN [cache |-> Without(cache, id), raised |-> "none"]
    ELSE [cache |-> cache, raised |-> "KeyError"]

\* variant: the pop is not wrapped in contextlib.suppress(KeyError)
UnsuppressedPop(cache, id) == Pop(cache, id)

\* with contextlib.suppress(KeyError): self.message_cache.pop(id)
SuppressedPop(cache, id) ==
    LET r == Pop(cache, id)
    IN  IF r.raised = "KeyError" THEN [cache |-> r.cache, raised |-> "none"] ELSE r

\* ----------------------------------------------------------------- Pruner
\* The body of prune_message_cache: the loop over the items of the copy,
\* from item i on.  message_states[-1] raises IndexError on an empty list and
\* pop raises KeyError on an absent key; either ends the loop part-way.
RECURSIVE PruneLoop(_, _, _, _, _)
PruneLoop(cache, snapshot, i, max_age, t) ==
    IF i > Len(snapshot) THEN [cache |-> cache, raised |-> "none"]
    ELSE LET message_id == snapshot[i].id
             message_states == snapshot[i].states
         IN  IF message_states = <<>> THEN [cache |-> cache, raised |-> "IndexError"]
             ELSE IF is_state_expired(Last(message_states), 0, max_age, t)
                  THEN LET r == Pop(cache, message_id)
                       IN  IF r.raised # "none" THEN r
                           ELSE PruneLoop(r.cache, snapshot, i + 1, max_age, t)
                  ELSE PruneLoop(cache, snapshot, i + 1, max_age, t)

\* variant: the scan is run a second time over the copy taken before the
\* first, whose expired ids are gone from the cache by then
PruneTickStaleCopy(cache, max_age, t) ==
    LET r == PruneLoop(cache, cache, 1, max_age, t)
    IN  IF r.raised # "none" THEN r ELSE PruneLoop(r.cache, cache, 1, max_age, t)

\* variant: the expired ids are popped from the copy, not from the cache
PruneTickOnCopy(cache, max_age, t) ==
    [cache |-> cache, raised |-> PruneLoop(cache, cache, 1, max_age, t).raised]

\* one tick: the loop over self.message_cache.copy().items()
PruneTick(cache, max_age, t) == PruneLoop(cache, cache, 1, max_age, t)

\* ------------------------------------------------------------- SnipeQuery
\* message_states[-1] of some value raises IndexError
SomeHistoryEmpty(cache) == \E i \in 1..Len(cache) : cache[i].states = <<>>

\* variant: the first state of the history is tested instead of the last
InChannelAndFreshFirst(message_states, channel, max_age, t) ==
    /\ MessageChannel(message_states[1].message) = channel
    /\ ~is_state_expired(message_states[1], 0, max_age, t)

\* variant: the expiry of the latest state is not tested
InChannelOnly(message_states, channel, max_age, t) ==
    MessageChannel(Last(message_states).message) = channel

\* the condition of the list comprehension, on a non-empty history
InChannelAndFresh(message_states, channel, max_age, t) ==
    LET latest == Last(message_states)
    IN  /\ MessageChannel(latest.message) = channel
        /\ ~is_state_expired(latest, 0, max_age, t)

\* the list comprehension: the values of the dict, in dict order, that pass
RECURSIVE ChannelStates(_, _, _, _, _)
ChannelStates(cache, i, channel, max_age, t) ==
    IF i > Len(cache) THEN <<>>
    ELSE LET rest == ChannelStates(cache, i + 1, channel, max_age, t)
         IN  IF InChannelAndFresh(cache[i].states, channel, max_age, t)
             THEN <<cache[i].states>> \o rest
             ELSE rest

\* the sort key: message_states[-1].changed_at
SortKey(message_states) == Last(message_states).changed_at

\* list.sort(key=...) is stable: h goes behind every element whose key is not
\* greater than its own
InsertSorted(sorted, h) ==
    LET before == Cardinality({j \in 1..Len(sorted) : SortKey(sorted[j]) <= SortKey(h)})
    IN  SubSeq(sorted, 1, before) \o <<h>> \o SubSeq(sorted, before + 1, Len(sorted))

RECURSIVE SortByLatest(_, _)
SortByLatest(list, n) ==
    IF n = 0 THEN <<>> ELSE InsertSorted(SortByLatest(list, n - 1), list[n])

\* get_tracked_states_in_channel(channel), for a cache with no empty history
get_tracked_states_in_channel(cache, channel, max_age, t) ==
    LET channel_states == ChannelStates(cache, 1, channel, max_age, t)
    IN  SortByLatest(channel_states, Len(channel_states))

\* Python's list[i] for a negative or non-negative i, as a position 1..n of
\* the list; 0 stands for IndexError
PyIndex(n, i) ==
    IF i < 0 THEN (IF n + i >= 0 THEN n + i + 1 ELSE 0)
    ELSE (IF i < n THEN i + 1 ELSE 0)

\* variant: the index is capped at the length but not raised to 1
SelectPositionNoFloor(n, index) == PyIndex(n, 0 - Min(index, n))

\* the position of message_states[-max(1, min(index, len(message_states)))]
SelectPosition(n, index) == PyIndex(n, 0 - Max(1, Min(index, n)))

\* ------------------------------------------------------------------- state
ResponseTypes == {"embed", "webhook"}       \* ResponseType._value2member_map_

IdleSniper ==
    [pc |-> "idle", sel |-> <<>>, latest |-> 0,
     sent |-> <<>>, popped |-> "none", result |-> "none"]

Snipers == DOMAIN snipers                   \* the invocations of the snipe command

\* __init__ has run: the cache is empty, the pruner loop is started, and the
\* response type has passed on_snipe_response_type_changed.  The snipe
\* command is invoked once.
Init ==
    /\ now = 0
    /\ settings \in [max_age : {MaxAge},
                     allow_deletion_sniping : BOOLEAN,
                     allow_edit_sniping : BOOLEAN,
                     allow_self_snipe : BOOLEAN,
                     snipe_response_type : ResponseTypes,
                     set_error : {"none"}]
    /\ message_cache = <<>>
    /\ event_count = 0
    /\ fetching = {}
    /\ snipers = [s \in {1} |-> IdleSniper]
    /\ pruner = "running"

\* the clock advances
Tick ==
    /\ now < MaxTime
    /\ now' = now + 1
    /\ UNCHANGED <<settings, message_cache, event_count, fetching, snipers, pruner>>

\* --------------------------------------------------------- event ingestion
\* A snipe awaiting its response already holds the list object stored under
\* id: it reads the same list that the cache appends to.
Aliases(sn, cache, id) ==
    /\ sn.sel # <<>>
    /\ sn.sel[1].message = id
    /\ id \in Keys(cache)
    /\ Get(cache, id) # <<>>
    /\ Get(cache, id)[1].seq = sn.sel[1].seq

\* self.message_cache[message.id].append(MessageState(message, changed_through,
\* changed_at=datetime.now()))
Track(id, changed_through) ==
    LET state == [message |-> id, changed_through |-> changed_through,
                  changed_at |-> now, seq |-> event_count + 1]
    IN  /\ message_cache' = Record(message_cache, id, state)
        /\ event_count' = event_count + 1
        /\ snipers' = [s \in Snipers |->
                          IF Aliases(snipers[s], message_cache, id)
                          THEN [snipers[s] EXCEPT !.sel = Append(@, state)]
                          ELSE snipers[s]]

\* variant: each handler tests the other handler's setting
AllowedSwapped(changed_through) ==
    IF changed_through = "DELETE"
    THEN settings.allow_edit_sniping
    ELSE settings.allow_deletion_sniping

\* the setting that gates the handler of a change type
Allowed(changed_through) ==
    IF changed_through = "DELETE"
    THEN settings.allow_deletion_sniping
    ELSE settings.allow_edit_sniping

\* can_snipe_message up to its await: "no", "yes", "fetch" (fetch_webhook) or
\* "raised" (the snipe_response_type property raises ValueError on a value
\* that is no ResponseType)
CanSnipeMessage(id) ==
    IF settings.allow_self_snipe
    THEN IF AuthorIsBot(id) THEN "no"
         ELSE IF HasWebhookId(id)
              THEN IF settings.snipe_response_type \notin ResponseTypes THEN "raised"
                   ELSE IF settings.snipe_response_type = "webhook" THEN "fetch"
                   ELSE "yes"
              ELSE "yes"
    ELSE "yes"

\* on_message_delete / on_message_edit, from the event to the return or to the
\* await in can_snipe_message
OnMessageChange(id, changed_through) ==
    /\ event_count + Cardinality(fetching) < MaxEvents
    /\ IF ~Allowed(changed_through) \/ CanSnipeMessage(id) \in {"no", "raised"}
       THEN UNCHANGED <<message_cache, event_count, fetching, snipers>>
       ELSE IF CanSnipeMessage(id) = "fetch"
            THEN /\ [message |-> id, changed_through |-> changed_through] \notin fetching
                 /\ fetching' = fetching \cup
                        {[message |-> id, changed_through |-> changed_through]}
                 /\ UNCHANGED <<message_cache, event_count, snipers>>
            ELSE /\ Track(id, changed_through)
                 /\ UNCHANGED fetching
    /\ UNCHANGED <<now, settings, pruner>>

on_message_delete == \E id \in Ids : OnMessageChange(id, "DELETE")

on_message_edit == \E id \in Ids : OnMessageChange(id, "EDIT")

\* fetch_webhook returns (webhook.name is ACCEPTED_WEBHOOK_NAME or another) or
\* raises; the handler goes on to its end
FetchWebhookDone ==
    \E h \in fetching, outcome \in {"accepted", "other", "raised"} :
        /\ fetching' = fetching \ {h}
        /\ IF outcome = "other"
           THEN Track(h.message, h.changed_through)
           ELSE UNCHANGED <<message_cache, event_count, snipers>>
        /\ UNCHANGED <<now, settings, pruner>>

\* ------------------------------------------------------------------ pruner
\* one iteration of the tasks.loop; an exception leaving the body ends the loop
prune_message_cache ==
    /\ pruner = "running"
    /\ LET r == PruneTick(message_cache, settings.max_age, now)
       IN  /\ message_cache' = r.cache
           /\ pruner' = IF r.raised = "none" THEN "running" ELSE "stopped"
    /\ UNCHANGED <<now, settings, event_count, fetching, snipers>>

\* ------------------------------------------------------------------- snipe
InFlight == {"embed_reply", "webhooks", "webhook_send", "wh_embed_reply"}

\* embed_response_handler up to its await of ctx.reply: it reads
\* message_states[-1] and builds the reply from it
EnterEmbedHandler(sn, pc) == [sn EXCEPT !.pc = pc, !.latest = Last(sn.sel).seq]

\* variant: a value that is no ResponseType is answered with an embed
UseHandlerDefaultEmbed(sn) ==
    IF settings.snipe_response_type = "webhook"
    THEN [sn EXCEPT !.pc = "webhooks", !.latest = Last(sn.sel).seq]
    ELSE EnterEmbedHandler(sn, "embed_reply")

\* use_handler up to the first await of the handler it picks; on a value that
\* is no ResponseType the snipe_response_type property raises ValueError
UseHandler(sn) ==
    IF settings.snipe_response_type = "embed"
    THEN EnterEmbedHandler(sn, "embed_reply")
    ELSE IF settings.snipe_response_type = "webhook"
         THEN [sn EXCEPT !.pc = "webhooks", !.latest = Last(sn.sel).seq]
         ELSE [sn EXCEPT !.pc = "done", !.result = "error"]

\* the command leaves without having touched the cache
Leave(sn, result) ==
    [sn EXCEPT !.pc = "done", !.result = result, !.sel = <<>>, !.latest = 0]

\* variant: the list of candidates is subscripted without the test for an
\* empty list
SnipeStartNoEmptyTest(sn, channel, index, in_guild) ==
    IF ~settings.allow_edit_sniping /\ ~settings.allow_deletion_sniping
    THEN Leave(sn, "disabled")
    ELSE IF ~in_guild THEN Leave(sn, "no_guild")
    ELSE IF SomeHistoryEmpty(message_cache) THEN Leave(sn, "error")
    ELSE LET message_states ==
                 get_tracked_states_in_channel(message_cache, channel,
                                               settings.max_age, now)
             p == SelectPosition(Len(message_states), index)
         IN  IF p = 0 THEN Leave(sn, "error")
             ELSE UseHandler([sn EXCEPT !.sel = message_states[p]])

\* snipe, from the invocation to its first await
SnipeStart(sn, channel, index, in_guild) ==
    IF ~settings.allow_edit_sniping /\ ~settings.allow_deletion_sniping
    THEN Leave(sn, "disabled")
    ELSE IF ~in_guild THEN Leave(sn, "no_guild")
    ELSE IF SomeHistoryEmpty(message_cache) THEN Leave(sn, "error")
    ELSE LET message_states ==
                 get_tracked_states_in_channel(message_cache, channel,
                                               settings.max_age, now)
             p == SelectPosition(Len(message_states), index)
         IN  IF message_states = <<>> THEN Leave(sn, "nothing")
             ELSE IF p = 0 THEN Leave(sn, "error")
             ELSE UseHandler([sn EXCEPT !.sel = message_states[p]])

snipe ==
    \E s \in Snipers, channel \in Channels, index \in IndexValues, in_guild \in BOOLEAN :
        /\ snipers[s].pc = "idle"
        /\ snipers' = [snipers EXCEPT ![s] = SnipeStart(@, channel, index, in_guild)]
        /\ UNCHANGED <<now, settings, message_cache, event_count, fetching, pruner>>

\* use_handler has returned: the pop under contextlib.suppress(KeyError), then
\* the await of delete_button.wait()
Consume(s, sn) ==
    LET id == Last(sn.sel).message
        r == SuppressedPop(message_cache, id)
    IN  /\ message_cache' = r.cache
        /\ snipers' = [snipers EXCEPT ![s] =
              IF r.raised # "none" THEN Leave(sn, "error")
              ELSE [sn EXCEPT !.pc = "button_wait", !.sel = <<>>, !.latest = 0,
                              !.popped = IF id \in Keys(message_cache)
                                         THEN "removed" ELSE "absent"]]

\* the response built from the state the handler read has been sent
Sent(sn) == [sn EXCEPT !.sent = Append(@, sn.latest)]

\* variant: the id is popped before the handler is awaited, so it is gone
\* when the handler raises
HandlerRaisedAfterPop(s, sn) ==
    /\ snipers' = [snipers EXCEPT ![s] = Leave(sn, "error")]
    /\ message_cache' = SuppressedPop(message_cache, Last(sn.sel).message).cache

\* use_handler raises: the exception leaves snipe at the await, before the pop
HandlerRaised(s, sn) ==
    /\ snipers' = [snipers EXCEPT ![s] = Leave(sn, "error")]
    /\ UNCHANGED message_cache

\* ctx.reply of the embed_response_handler that use_handler awaits returns or
\* raises
EmbedReplyDone ==
    \E s \in Snipers, ok \in BOOLEAN :
        /\ snipers[s].pc = "embed_reply"
        /\ IF ok
           THEN Consume(s, Sent(snipers[s]))
           ELSE HandlerRaised(s, snipers[s])
        /\ UNCHANGED <<now, settings, event_count, fetching, pruner>>

\* webhook_response_handler: the webhook lookup (and creation) returns, or
\* raises discord.HTTPException and the handler falls back to an embed
WebhooksDone ==
    \E s \in Snipers, ok \in BOOLEAN :
        /\ snipers[s].pc = "webhooks"
        /\ snipers' = [snipers EXCEPT ![s] =
              IF ok THEN [@ EXCEPT !.pc = "webhook_send"]
              ELSE EnterEmbedHandler(@, "wh_embed_reply")]
        /\ UNCHANGED <<now, settings, message_cache, event_count, fetching, pruner>>

\* webhook_response_handler: snipe_webhook.send returns, or something on the
\* way to it raises and use_handler falls back to an embed
WebhookSendDone ==
    \E s \in Snipers, ok \in BOOLEAN :
        /\ snipers[s].pc = "webhook_send"
        /\ IF ok
           THEN Consume(s, Sent(snipers[s]))
           ELSE /\ snipers' = [snipers EXCEPT ![s] = EnterEmbedHandler(@, "embed_reply")]
                /\ UNCHANGED message_cache
        /\ UNCHANGED <<now, settings, event_count, fetching, pruner>>

\* the fallback embed inside webhook_response_handler is sent or fails; either
\* way an exception leaves the handler and use_handler falls back to an embed
WebhookEmbedReplyDone ==
    \E s \in Snipers, ok \in BOOLEAN :
        /\ snipers[s].pc = "wh_embed_reply"
        /\ snipers' = [snipers EXCEPT ![s] =
              EnterEmbedHandler(IF ok THEN Sent(@) ELSE @, "embed_reply")]
        /\ UNCHANGED <<now, settings, message_cache, event_count, fetching, pruner>>

\* delete_button.wait() returns; the response may be deleted
ButtonWaitDone ==
    \E s \in Snipers :
        /\ snipers[s].pc = "button_wait"
        /\ snipers' = [snipers EXCEPT ![s] = Leave(@, "sniped")]
        /\ UNCHANGED <<now, settings, message_cache, event_count, fetching, pruner>>

\* ----------------------------------------------------------- specification
Next ==
    \/ Tick
    \/ on_message_delete
    \/ on_message_edit
    \/ FetchWebhookDone
    \/ prune_message_cache
    \/ snipe
    \/ EmbedReplyDone
    \/ WebhooksDone
    \/ WebhookSendDone
    \/ WebhookEmbedReplyDone
    \/ ButtonWaitDone

Spec == Init /\ [][Next]_vars

\* The same cog with the snipe command invoked twice, the invocations
\* interleaving at their awaits; edits are tracked, deletions are not.
InitConcurrent ==
    /\ now = 0
    /\ settings \in [max_age : {MaxAge},
                     allow_deletion_sniping : {FALSE},
                     allow_edit_sniping : {TRUE},
                     allow_self_snipe : {TRUE},
                     snipe_response_type : ResponseTypes,
                     set_error : {"none"}]
    /\ message_cache = <<>>
    /\ event_count = 0
    /\ fetching = {}
    /\ snipers = [s \in {1, 2} |-> IdleSniper]
    /\ pruner = "running"

SpecConcurrent == InitConcurrent /\ [][Next]_vars

\* The cog in webhook mode with everything allowed, and the pruner loop kept
\* running by tasks.loop(seconds=3): a tick that would change the cache is
\* eventually taken.
InitLive ==
    /\ now = 0
    /\ settings \in [max_age : {MaxAge},
                     allow_deletion_sniping : {TRUE},
                     allow_edit_sniping : {TRUE},
                     allow_self_snipe : {TRUE},
                     snipe_response_type : {"webhook"},
                     set_error : {"none"}]
    /\ message_cache = <<>>
    /\ event_count = 0
    /\ fetching = {}
    /\ snipers = [s \in {1} |-> IdleSniper]
    /\ pruner = "running"

SpecLive == InitLive /\ [][Next]_vars /\ WF_vars(prune_message_cache)

\* ------------------------------------------------- change of the response type
\* on_snipe_response_type_changed(_, new): what the observer raises
on_snipe_response_type_changed(new) ==
    IF new \notin ResponseTypes THEN "ValueError" ELSE "none"

\* values the setting is given: the two response types and one that is none
SetValues == ResponseTypes \cup {"bogus"}

\* The snipe_response_type setting is set to new and the observer runs.
\* Whether a value the observer raised on stays in the setting is up to the
\* settings framework: both outcomes are taken.
set_snipe_response_type ==
    \E new \in SetValues, kept \in BOOLEAN :
        LET raised == on_snipe_response_type_changed(new)
        IN  /\ settings' = [settings EXCEPT
                              !.snipe_response_type =
                                  IF raised = "none" \/ kept THEN new ELSE @,
                              !.set_error = raised]
            /\ UNCHANGED <<now, message_cache, event_count, fetching, snipers, pruner>>

\* The cog with deletions tracked and edits not, the response type being
\* changed while it runs.
InitConfig ==
    /\ now = 0
    /\ settings \in [max_age : {MaxAge},
                     allow_deletion_sniping : {TRUE},
                     allow_edit_sniping : {FALSE},
                     allow_self_snipe : {TRUE},
                     snipe_response_type : ResponseTypes,
                     set_error : {"none"}]
    /\ message_cache = <<>>
    /\ event_count = 0
    /\ fetching = {}
    /\ snipers = [s \in {1} |-> IdleSniper]
    /\ pruner = "running"

NextConfig == Next \/ set_snipe_response_type

SpecConfig == InitConfig /\ [][NextConfig]_vars

\* =================================================================== claims
\* what the claims call expired: changedAt + maxAge (+ zero lenience) lies
\* strictly before the current time
ExpiredNow(state) == state.changed_at + settings.max_age < now

Entries == 1..Len(message_cache)

\* the entry of the store whose history starts with the state numbered seq
\* (the number identifies the list object)
HistoryStartingAt(cache, seq) ==
    {i \in 1..Len(cache) : cache[i].states # <<>> /\ cache[i].states[1].seq = seq}

\* C1: every message id present as a key of message_cache maps to a non-empty
\* list of states, in every reachable state, whatever the interleaving of the
\* event handlers, the pruner and snipe.
C1_NoEmptyHistory ==
    \A i \in Entries : message_cache[i].states # <<>>

\* C1 witness: the store holds a history of two states after a snipe has
\* consumed an entry.
C1_Witness ==
    /\ \E i \in Entries : Len(message_cache[i].states) >= 2
    /\ \E s \in Snipers : snipers[s].popped = "removed"

\* C2 (as claimed): no recorded state is delivered by more than one snipe
\* invocation.
C2_NotSnipedTwice ==
    \A s1, s2 \in Snipers :
        s1 # s2 =>
            {snipers[s1].sent[k] : k \in 1..Len(snipers[s1].sent)}
            \cap {snipers[s2].sent[k] : k \in 1..Len(snipers[s2].sent)} = {}

\* C3: a pruner tick leaves in the store exactly the entries whose latest
\* state is not expired at the time of the scan: what remains is unexpired and
\* untouched, what is gone was expired.
C3_PrunerTick ==
    [][prune_message_cache =>
        /\ \A j \in 1..Len(message_cache') :
              /\ message_cache'[j].states # <<>>
              /\ ~ExpiredNow(Last(message_cache'[j].states))
              /\ \E i \in Entries : message_cache[i] = message_cache'[j]
        /\ \A i \in Entries :
              message_cache[i].id \notin Keys(message_cache')
                  => ExpiredNow(Last(message_cache[i].states))
        /\ \A i \in Entries :
              ~ExpiredNow(Last(message_cache[i].states))
                  => message_cache[i].id \in Keys(message_cache')]_vars

\* C3 witness: the pruner has removed the entry a snipe was rendering (the
\* snipe found it gone), and an unexpired entry is still in the store.
C3_Witness ==
    /\ \E s \in Snipers : snipers[s].popped = "absent"
    /\ \E i \in Entries : ~ExpiredNow(Last(message_cache[i].states))
    /\ pruner = "running"

\* C4: while a message id stays in the store its history only grows at the
\* end, by one state per accepted event: a step that creates a state appends
\* it to the history of its message id (or starts that history with it) and
\* changes no other history; any other step leaves every history it does not
\* remove as it was.
C4_AppendOnly ==
    [][/\ \A i \in Entries :
             LET id == message_cache[i].id
                 old == message_cache[i].states
             IN  (/\ old # <<>>
                  /\ HistoryStartingAt(message_cache', old[1].seq) # {})
                     => LET new == Get(message_cache', id)
                        IN  \/ new = old
                            \/ /\ event_count' = event_count + 1
                               /\ Len(new) = Len(old) + 1
                               /\ SubSeq(new, 1, Len(old)) = old
                               /\ Last(new).seq = event_count'
       /\ event_count' = event_count + 1
             => \E id \in Ids :
                   /\ id \in Keys(message_cache')
                   /\ Last(Get(message_cache', id)).seq = event_count'
                   /\ Last(Get(message_cache', id)).message = id
                   /\ Get(message_cache', id) =
                        (IF id \in Keys(message_cache)
                         THEN Get(message_cache, id) ELSE <<>>)
                        \o <<Last(Get(message_cache', id))>>
                   /\ \A i \in Entries :
                         message_cache[i].id # id
                             => \E j \in 1..Len(message_cache') :
                                    message_cache'[j] = message_cache[i]
      ]_vars

\* C4 witness: message 1 was edited twice and then deleted; its history holds
\* the three states in that order.
C4_Witness ==
    /\ 1 \in Keys(message_cache)
    /\ Len(Get(message_cache, 1)) = 3
    /\ Get(message_cache, 1)[1].changed_through = "EDIT"
    /\ Get(message_cache, 1)[2].changed_through = "EDIT"
    /\ Get(message_cache, 1)[3].changed_through = "DELETE"
    /\ Get(message_cache, 1)[1].changed_at < Get(message_cache, 1)[3].changed_at

\* the histories of the store a query of channel must return, by the claim:
\* latest state in the channel and not expired
Eligible(channel) ==
    {i \in Entries :
        /\ MessageChannel(Last(message_cache[i].states).message) = channel
        /\ ~ExpiredNow(Last(message_cache[i].states))}

\* get_tracked_states_in_channel(channel) on the current store
Tracked(channel) ==
    get_tracked_states_in_channel(message_cache, channel, settings.max_age, now)

\* C5: get_tracked_states_in_channel(channel) returns exactly the histories
\* of the store whose latest state is in the channel and not expired, each
\* once, in ascending order of the latest state's changed_at.
C5_TrackedStates ==
    \A channel \in Channels :
        LET R == Tracked(channel)
        IN  /\ \A j \in 1..Len(R) :
                  \E i \in Eligible(channel) : message_cache[i].states = R[j]
            /\ \A i \in Eligible(channel) :
                  \E j \in 1..Len(R) : R[j] = message_cache[i].states
            /\ Len(R) = Cardinality(Eligible(channel))
            /\ \A j, k \in 1..Len(R) :
                  j < k => Last(R[j]).changed_at <= Last(R[k]).changed_at

\* C5 witness: two histories are returned in an order that is not the order of
\* the store; the one returned last has an expired first state and a fresh
\* latest state.
C5_Witness ==
    \E channel \in Channels :
        LET R == Tracked(channel)
        IN  /\ Len(R) = 2
            /\ Len(R[2]) = 2
            /\ ExpiredNow(R[2][1])
            /\ Last(R[1]).changed_at < Last(R[2]).changed_at
            /\ Position(message_cache, R[2][1].message)
                 < Position(message_cache, R[1][1].message)

\* the claim's clamp of index into [1, n]
Clamp(index, n) == IF index < 1 THEN 1 ELSE IF index > n THEN n ELSE index

\* C6: for a non-empty candidate list of length n and any index, the
\* selection does not fail and picks the element n - clamp(index, 1, n)
\* (counted from 0) of the ascending list: the most recent for index <= 1, the
\* oldest for index >= n.  Checked on every list a query returns and on every
\* length up to MaxIndex.
C6_SelectByIndex ==
    \A n \in {Len(Tracked(channel)) : channel \in Channels} \cup 1..MaxIndex :
        n > 0 =>
            \A index \in IndexValues :
                LET p == SelectPosition(n, index)
                IN  /\ p \in 1..n
                    /\ p - 1 = n - Clamp(index, n)
                    /\ index <= 1 => p = n
                    /\ index >= n => p = 1

\* C6 witness: with two candidates in the channel, a snipe is rendering the
\* older one (its index was 2 or more).
C6_Witness ==
    \E channel \in Channels, s \in Snipers :
        /\ Len(Tracked(channel)) = 2
        /\ snipers[s].pc \in InFlight
        /\ snipers[s].sel = Tracked(channel)[1]
        /\ Last(Tracked(channel)[1]).changed_at < Last(Tracked(channel)[2]).changed_at

\* C7: a snipe changes the store in one step only, the one in which
\* use_handler returns; a step in which the handler raises and the snipe ends
\* with an error leaves the store as it is.
C7_NoRemovalOnFailure ==
    [][\A s \in Snipers :
          /\ (snipers[s].pc \in InFlight /\ snipers'[s].result = "error")
                => message_cache' = message_cache
          /\ (snipers'[s].pc # snipers[s].pc /\ message_cache' # message_cache)
                => /\ snipers[s].pc \in {"embed_reply", "webhook_send"}
                   /\ snipers'[s].pc = "button_wait"
                   /\ Len(snipers'[s].sent) = Len(snipers[s].sent) + 1
                   /\ message_cache' = Without(message_cache, Last(snipers[s].sel).message)
      ]_vars

\* C7 witness: a snipe has ended with an error after the webhook handler's
\* fallback embed was sent, and the state it delivered is still the latest
\* state of an entry of the store.
C7_Witness ==
    \E s \in Snipers :
        /\ snipers[s].result = "error"
        /\ Len(snipers[s].sent) = 1
        /\ \E i \in Entries : Last(message_cache[i].states).seq = snipers[s].sent[1]

\* C8: when use_handler has returned, the removal step never fails: if the
\* selected id is still a key the store loses exactly that key, if it is gone
\* (pruned during rendering, or consumed by another snipe) the store is left
\* as it is; and removing an id from the store a second time changes nothing.
C8_IdempotentConsume ==
    [][/\ \A s \in Snipers :
             (/\ snipers[s].pc \in {"embed_reply", "webhook_send"}
              /\ Len(snipers'[s].sent) = Len(snipers[s].sent) + 1)
                 => LET id == Last(snipers[s].sel).message
                    IN  /\ snipers'[s].pc = "button_wait"
                        /\ snipers'[s].result # "error"
                        /\ id \notin Keys(message_cache')
                        /\ message_cache' =
                             (IF id \in Keys(message_cache)
                              THEN Without(message_cache, id) ELSE message_cache)
       /\ \A id \in Ids :
             LET once == SuppressedPop(message_cache, id)
             IN  /\ once.raised = "none"
                 /\ SuppressedPop(once.cache, id) = once
      ]_vars

\* C8 witness: two snipes delivered the same state; the first removed the id,
\* the second found it gone and went on to wait for its button.
C8_Witness ==
    \E s1, s2 \in Snipers :
        /\ snipers[s1].popped = "removed"
        /\ snipers[s2].popped = "absent"
        /\ snipers[s1].sent = snipers[s2].sent
        /\ snipers[s2].pc = "button_wait"

IsLatest(seq) ==
    \E i \in Entries : Last(message_cache[i].states).seq = seq

\* ... and it is expired
IsExpiredLatest(seq) ==
    \E i \in Entries :
        /\ Last(message_cache[i].states).seq = seq
        /\ ExpiredNow(Last(message_cache[i].states))

\* a query of some channel returns the history whose latest state is seq
IsReturned(seq) ==
    \E channel \in Channels :
        \E j \in 1..Len(Tracked(channel)) : Last(Tracked(channel)[j]).seq = seq

\* C10: with max_age fixed and the pruner ticking, an entry whose latest state
\* has expired is eventually removed unless a further state is recorded for
\* it, and from its expiry on no query returns it.
C10_ExpiredGoesAway ==
    \A seq \in 1..MaxEvents :
        /\ IsExpiredLatest(seq) ~> ~IsLatest(seq)
        /\ [](IsExpiredLatest(seq) => []~IsReturned(seq))

\* C10 witness: an expired entry is still in the store, awaiting the pruner,
\* while a query of its channel returns another entry.
C10_Witness ==
    \E i \in Entries :
        /\ ExpiredNow(Last(message_cache[i].states))
        /\ Tracked(MessageChannel(message_cache[i].id)) # <<>>

\* every state held by the store
StoredStates ==
    UNION {{message_cache[i].states[k] : k \in 1..Len(message_cache[i].states)} :
              i \in Entries}

\* C11: is_state_expired(state, lenience) is true exactly when more than
\* max_age + lenience has passed since changed_at; at the instant
\* changed_at + max_age + lenience itself the state is not expired.  Stated for
\* every stored state, every lenience and every clock value.
C11_ExpiredIff ==
    \A state \in StoredStates, lenience \in 0..MaxLenience, t \in 0..(MaxTime + 1) :
        /\ is_state_expired(state, lenience, settings.max_age, t)
             <=> (t - state.changed_at > settings.max_age + lenience)
        /\ t = state.changed_at + settings.max_age + lenience
             => ~is_state_expired(state, lenience, settings.max_age, t)

\* C11 witness: the clock stands exactly at changed_at + max_age of a stored
\* state, which a query (zero lenience) still returns, next to an expired one.
C11_Witness ==
    /\ \E i \in Entries :
          /\ now = Last(message_cache[i].states).changed_at + settings.max_age
          /\ \E j \in 1..Len(Tracked(MessageChannel(message_cache[i].id))) :
                Tracked(MessageChannel(message_cache[i].id))[j] = message_cache[i].states
    /\ \E i \in Entries : ExpiredNow(Last(message_cache[i].states))

\* C12: for a state, max_age and lenience, once is_state_expired is true at
\* a clock value it is true at every later one.
C12_ExpiryMonotonic ==
    \A state \in StoredStates, lenience \in 0..MaxLenience :
        \A t1, t2 \in 0..(MaxTime + 1) :
            (t1 < t2 /\ is_state_expired(state, lenience, settings.max_age, t1))
                => is_state_expired(state, lenience, settings.max_age, t2)

\* C12 witness: a stored state that was already expired one clock step ago is
\* expired now.
C12_Witness ==
    \E state \in StoredStates :
        /\ now >= 1
        /\ is_state_expired(state, 0, settings.max_age, now - 1)
        /\ is_state_expired(state, 0, settings.max_age, now)

\* C13: setting the response type to a value that is neither embed nor
\* webhook raises an error at once; and a snipe that reaches use_handler while
\* the setting holds such a value ends with an error, delivers no response
\* and leaves the store as it is.
C13_InvalidResponseType ==
    [][/\ \A new \in SetValues \ ResponseTypes :
             (/\ settings' # settings
              /\ settings'.snipe_response_type = new)
                 => settings'.set_error = "ValueError"
       /\ \A new \in SetValues \ ResponseTypes :
             on_snipe_response_type_changed(new) = "ValueError"
       /\ \A s \in Snipers, channel \in Channels, index \in IndexValues :
             (/\ settings.snipe_response_type \notin ResponseTypes
              /\ snipers[s].pc = "idle"
              /\ snipers'[s] = SnipeStart(snipers[s], channel, index, TRUE)
              /\ Tracked(channel) # <<>>)
                 => /\ snipers'[s].pc = "done"
                    /\ snipers'[s].result = "error"
                    /\ snipers'[s].sent = <<>>
                    /\ message_cache' = message_cache
      ]_vars

\* C13 witness: the setting holds a value that is no response type, the set
\* that put it there raised, and a snipe of a channel with an eligible
\* history has ended with an error and no response.
C13_Witness ==
    \E s \in Snipers :
        /\ settings.snipe_response_type \notin ResponseTypes
        /\ settings.set_error = "ValueError"
        /\ snipers[s].result = "error"
        /\ snipers[s].sent = <<>>
        /\ \E channel \in Channels : Tracked(channel) # <<>>

\* the states a snipe invocation has delivered
Delivered(sn) == {sn.sent[k] : k \in 1..Len(sn.sent)}

\* C14 (as claimed): an entry leaves the store only if its latest state is
\* expired or has been delivered by a snipe; in particular a snipe's
\* consumption step removes no state that was recorded while it was awaiting
\* its handler, and no fresh history, that was neither delivered nor expired.
C14_RemovedOnlyDeliveredOrExpired ==
    [][\A i \in Entries :
          message_cache[i].id \notin Keys(message_cache')
              => \/ ExpiredNow(Last(message_cache[i].states))
                 \/ \E s \in Snipers :
                       Last(message_cache[i].states).seq \in Delivered(snipers'[s])
      ]_vars

\* C15: every history of the store is in ascending order of changed_at, so
\* its last state is the most recently changed one.
C15_HistoryAscending ==
    \A i \in Entries :
        \A j, k \in 1..Len(message_cache[i].states) :
            j < k => message_cache[i].states[j].changed_at
                        <= message_cache[i].states[k].changed_at

\* C15 witness: message 2, whose handlers suspend in fetch_webhook, has a
\* history of two states recorded at different times while a third handler
\* for it is still suspended.
C15_Witness ==
    /\ 2 \in Keys(message_cache)
    /\ Len(Get(message_cache, 2)) = 2
    /\ Get(message_cache, 2)[1].changed_at < Get(message_cache, 2)[2].changed_at
    /\ \E h \in fetching : h.message = 2

\* the snipe command is enabled by the settings
SnipingEnabled == settings.allow_edit_sniping \/ settings.allow_deletion_sniping

\* C16 (as claimed): a snipe invoked in a channel with no eligible history
\* reports that there is nothing to snipe, whatever the index, invokes no
\* handler and leaves the store unchanged.
C16_NothingToSnipe ==
    [][\A s \in Snipers, channel \in Channels, index \in IndexValues, in_guild \in BOOLEAN :
          (/\ snipers[s].pc = "idle"
           /\ snipers'[s] = SnipeStart(snipers[s], channel, index, in_guild)
           /\ snipers' # snipers
           /\ Tracked(channel) = <<>>)
              => /\ snipers'[s].pc = "done"
                 /\ snipers'[s].result = "nothing"
                 /\ snipers'[s].sent = <<>>
                 /\ message_cache' = message_cache
      ]_vars

\* C16 (amended): the same for a snipe that has passed the two checks before
\* the query (sniping enabled, invoked in a guild); a snipe stopped by one of
\* them reports that instead, and it too invokes no handler and leaves the
\* store unchanged.
C16_NothingToSnipeAmended ==
    [][\A s \in Snipers, channel \in Channels, index \in IndexValues, in_guild \in BOOLEAN :
          (/\ snipers[s].pc = "idle"
           /\ snipers'[s] = SnipeStart(snipers[s], channel, index, in_guild)
           /\ snipers' # snipers
           /\ Tracked(channel) = <<>>)
              => /\ snipers'[s].pc = "done"
                 /\ snipers'[s].result =
                      (IF ~SnipingEnabled THEN "disabled"
                       ELSE IF ~in_guild THEN "no_guild" ELSE "nothing")
                 /\ snipers'[s].sent = <<>>
                 /\ message_cache' = message_cache
      ]_vars

\* C16 witness: a snipe has reported nothing to snipe while the store holds
\* an entry (of the other channel, or expired).
C16_Witness ==
    \E s \in Snipers :
        /\ snipers[s].result = "nothing"
        /\ snipers[s].sent = <<>>
        /\ snipers[s].popped = "none"
        /\ message_cache # <<>>

\* C17 (as claimed): one snipe invocation delivers at most one response.
C17_AtMostOneResponse ==
    \A s \in Snipers : Len(snipers[s].sent) <= 1

ChangeTypes == {"DELETE", "EDIT"}

\* C18: a step that records nothing (a gated event among them) adds no state
\* to the store; a step that records an event does so for a change type whose
\* setting is on and, with allow_self_snipe on, for a message the bot did not
\* write, and it changes only the history of that message id, appending
\* exactly one state of that change type.
C18_GatedIngestion ==
    [][/\ event_count' = event_count => StoredStates' \subseteq StoredStates
       /\ event_count' # event_count =>
             \E id \in Ids, kind \in ChangeTypes :
                 LET old == IF id \in Keys(message_cache)
                            THEN Get(message_cache, id) ELSE <<>>
                     new == Get(message_cache', id)
                 IN  /\ kind = "DELETE" => settings.allow_deletion_sniping
                     /\ kind = "EDIT" => settings.allow_edit_sniping
                     /\ ~(settings.allow_self_snipe /\ AuthorIsBot(id))
                     /\ Keys(message_cache') = Keys(message_cache) \cup {id}
                     /\ \A j \in Keys(message_cache) \ {id} :
                           Get(message_cache', j) = Get(message_cache, j)
                     /\ Len(new) = Len(old) + 1
                     /\ SubSeq(new, 1, Len(old)) = old
                     /\ Last(new).message = id
                     /\ Last(new).changed_through = kind
      ]_vars

\* C18 witness: with deletion sniping off and edit sniping and allow_self_snipe
\* on, two edits of message 1 and one event of message 2 have been recorded.
C18_Witness ==
    /\ ~settings.allow_deletion_sniping
    /\ settings.allow_edit_sniping
    /\ settings.allow_self_snipe
    /\ 1 \in Keys(message_cache)
    /\ 2 \in Keys(message_cache)
    /\ Len(Get(message_cache, 1)) = 2
    /\ \A st \in StoredStates : st.changed_through = "EDIT"

====
